---------------------------- MODULE Spec2Model ----------------------------
(***************************************************************************)
(* Model of checker.py, the Pokemon TCG stock / anticipated checker.       *)
(*                                                                         *)
(* Two parts:                                                              *)
(*  - the availability classifier (detect_status_from_html and the         *)
(*    JSON-LD scan check_json_ld_for_availability), a pure function of     *)
(*    the fetched markup, exercised by SpecClassify;                       *)
(*  - the run driver main(): load the store, process every configured      *)
(*    product, notify once, save the store; exercised by Spec over         *)
(*    consecutive runs that share the persisted store.                     *)
(*                                                                         *)
(* Python strings are sequences of one-character strings, so that          *)
(* str.lower() and the substring test `w in low` are computed.             *)
(***************************************************************************)
EXTENDS Integers, Sequences, FiniteSets, TLC

VARIABLES
    html,       \* classifier input under test (SpecClassify)
    result,     \* "pending", or what detect_status_from_html(html) produced
    store,      \* contents of last_status.json: URL -> stored value
    config,     \* products of the run in progress (config.json "products")
    last,       \* main(): the in-memory mapping `last`
    changes,    \* main(): the list `changes`
    idx,        \* main(): position of the for-loop over products (1-based)
    pc,         \* "idle" (no process), "loop", "save", "done", "crashed", "aborted"
    outbox,     \* send_email invocations of the run in progress
    loaded,     \* history: the store as load_last_status returned it for this run
    obs,        \* history: one record per product processed in this run, in loop order
    saves,      \* history: number of save_last_status calls in this run
    watch,      \* history: the URL whose observations are followed from run to run
    prev,       \* history: what the run before this one did for the watched URL
    older       \* history: the run before that observed in_stock for the watched URL

vars == <<html, result, store, config, last, changes, idx, pc, outbox,
          loaded, obs, saves, watch, prev, older>>

classifyVars == <<html, result>>
runVars == <<store, config, last, changes, idx, pc, outbox, loaded, obs, saves, watch, prev, older>>

---------------------------------------------------------------------------
(* Bounds of the model *)

MaxOffers == 2
MaxNodes == 2
MaxBlocks == 2
MaxFrags == 2
MaxElems == 1
MaxProducts == 2

SeqsUpTo(S, n) == UNION {[1..k -> S] : k \in 0..n}

---------------------------------------------------------------------------
(* Strings *)

LowerChar(c) ==
    CASE c = "A" -> "a" [] c = "B" -> "b" [] c = "C" -> "c" [] c = "D" -> "d"
      [] c = "E" -> "e" [] c = "F" -> "f" [] c = "G" -> "g" [] c = "H" -> "h"
      [] c = "I" -> "i" [] c = "J" -> "j" [] c = "K" -> "k" [] c = "L" -> "l"
      [] c = "M" -> "m" [] c = "N" -> "n" [] c = "O" -> "o" [] c = "P" -> "p"
      [] c = "Q" -> "q" [] c = "R" -> "r" [] c = "S" -> "s" [] c = "T" -> "t"
      [] c = "U" -> "u" [] c = "V" -> "v" [] c = "W" -> "w" [] c = "X" -> "x"
      [] c = "Y" -> "y" [] c = "Z" -> "z"
      [] OTHER -> c

lower(s) == [i \in 1..Len(s) |-> LowerChar(s[i])]

\* Python's `w in s` for strings
Contains(w, s) == \E i \in 1..(Len(s) - Len(w) + 1) : SubSeq(s, i, i + Len(w) - 1) = w

RECURSIVE Join(_, _)
Join(sep, parts) ==
    IF parts = <<>> THEN <<>>
    ELSE IF Len(parts) = 1 THEN parts[1]
    ELSE parts[1] \o sep \o Join(sep, Tail(parts))

IN_STOCK_WORDS ==
    << <<"i","n"," ","s","t","o","c","k">>, <<"a","d","d"," ","t","o"," ","c","a","r","t">>, <<"a","d","d"," ","t","o"," ","b","a","g">>, <<"a","d","d"," ","t","o"," ","b","a","s","k","e","t">>, <<"a","d","d"," ","t","o"," ","t","r","o","l","l","e","y">>,
       <<"a","v","a","i","l","a","b","l","e"," ","n","o","w">>, <<"a","v","a","i","l","a","b","l","e"," ","t","o"," ","b","u","y">>, <<"a","v","a","i","l","a","b","l","e">>, <<"b","u","y"," ","n","o","w">>, <<"a","d","d"," ","t","o"," ","c","a","r","t">>, <<"a","d","d">> >>

ANTICIPATED_WORDS ==
    << <<"p","r","e","-","o","r","d","e","r">>, <<"p","r","e","o","r","d","e","r">>, <<"p","r","e"," ","o","r","d","e","r">>, <<"c","o","m","i","n","g"," ","s","o","o","n">>, <<"a","v","a","i","l","a","b","l","e"," ","s","o","o","n">>,
       <<"a","v","a","i","l","a","b","l","e"," ","f","o","r"," ","p","r","e","-","o","r","d","e","r">>, <<"e","x","p","e","c","t","e","d">>, <<"b","a","c","k"," ","i","n"," ","s","t","o","c","k">>, <<"r","e","s","t","o","c","k">>, <<"n","o","t","i","f","y"," ","m","e">>,
       <<"r","e","l","e","a","s","e"," ","d","a","t","e">>, <<"a","v","a","i","l","a","b","l","e"," ","f","r","o","m">> >>

OUT_OF_STOCK_WORDS ==
    << <<"o","u","t"," ","o","f"," ","s","t","o","c","k">>, <<"s","o","l","d"," ","o","u","t">>, <<"c","u","r","r","e","n","t","l","y"," ","u","n","a","v","a","i","l","a","b","l","e">>, <<"u","n","a","v","a","i","l","a","b","l","e">>, <<"n","o","t"," ","a","v","a","i","l","a","b","l","e">> >>

\* `for w in words: if w in txt: return ...` and `any(x in txt for x in words)`
AnyWordIn(words, txt) == \E i \in 1..Len(words) : Contains(words[i], txt)

---------------------------------------------------------------------------
(* JSON values as json.loads returns them: tagged, v is the payload *)

None == [t |-> "none", v |-> 0]
JStr(s) == [t |-> "str", v |-> s]
JNum(n) == [t |-> "num", v |-> n]
JList(xs) == [t |-> "list", v |-> xs]
JDict(f) == [t |-> "dict", v |-> f]
\* script text that json.loads rejects; v is the text
Invalid(s) == [t |-> "invalid", v |-> s]

\* Python truthiness, as `if offers:` and `a or b` use it
Truthy(x) ==
    CASE x.t = "none" -> FALSE
      [] x.t = "str"  -> x.v # <<>>
      [] x.t = "num"  -> x.v # 0
      [] x.t = "list" -> x.v # <<>>
      [] x.t = "dict" -> DOMAIN x.v # {}

PyOr(a, b) == IF Truthy(a) THEN a ELSE b

\* dict.get(key): None when the key is missing
dict_get(d, key) == IF key \in DOMAIN d.v THEN d.v[key] ELSE None

KeyOrder == <<"offers", "availability", "Availability">>

KeyText(k) ==
    CASE k = "offers" -> <<"o","f","f","e","r","s">>
      [] k = "availability" -> <<"a","v","a","i","l","a","b","i","l","i","t","y">>
      [] k = "Availability" -> <<"A","v","a","i","l","a","b","i","l","i","t","y">>

Digit(n) == <<"0","1","2","3","4","5","6","7","8","9">>[n + 1]

\* the text of a JSON value inside its script block
RECURSIVE JsonText(_)
JsonText(x) ==
    CASE x.t = "none"    -> <<"n","u","l","l">>
      [] x.t = "invalid" -> x.v
      [] x.t = "str"     -> <<"\"">> \o x.v \o <<"\"">>
      [] x.t = "num"     -> <<Digit(x.v)>>
      [] x.t = "list"    -> <<"[">> \o Join(<<",">>, [i \in 1..Len(x.v) |-> JsonText(x.v[i])]) \o <<"]">>
      [] x.t = "dict"    ->
            LET keys == SelectSeq(KeyOrder, LAMBDA k : k \in DOMAIN x.v)
            IN  <<"{">> \o Join(<<",">>, [i \in 1..Len(keys) |->
                        <<"\"">> \o KeyText(keys[i]) \o <<"\"",":">> \o JsonText(x.v[keys[i]])]) \o <<"}">>

---------------------------------------------------------------------------
(* A fetched page: fetch_html returns None, or the markup r.text.  The     *)
(* markup is kept structured (its ld+json script blocks, its paragraphs,   *)
(* its button/a/input elements) and rendered to the character string the   *)
(* keyword tier reads.                                                     *)

NoneHtml == [none |-> TRUE, ld |-> <<>>, body |-> <<>>, elems |-> <<>>]
Page(ld, body, elems) == [none |-> FALSE, ld |-> ld, body |-> body, elems |-> elems]

ScriptText(block) ==
    <<"<","s","c","r","i","p","t"," ","t","y","p","e","=","\"","a","p","p","l","i","c","a","t","i","o","n","/","l","d","+","j","s","o","n","\"",">">> \o JsonText(block) \o <<"<","/","s","c","r","i","p","t",">">>

ParagraphText(frag) == <<"<","p",">">> \o frag \o <<"<","/","p",">">>

ElementText(e) ==
    <<"<">> \o e.tag \o <<" ","t","i","t","l","e","=","\"">> \o e.attr \o <<"\"",">">> \o e.text \o <<"<","/">> \o e.tag \o <<">">>

Markup(h) ==
    Join(<<>>, [i \in 1..Len(h.ld) |-> ScriptText(h.ld[i])])
    \o Join(<<>>, [i \in 1..Len(h.body) |-> ParagraphText(h.body[i])])
    \o Join(<<>>, [i \in 1..Len(h.elems) |-> ElementText(h.elems[i])])

---------------------------------------------------------------------------
(* check_json_ld_for_availability *)

PyNone == "None"
NoMatch == PyNone
AttributeError == "AttributeError"

\* re.findall(...): the captured script bodies, in document order
Patterns(h) == h.ld

\* a bug scan_offer_list could have: only the first offer of a list is read
scan_offer_list_FirstOnly(offer_list) ==
    IF offer_list = <<>> THEN NoMatch
    ELSE LET off == Head(offer_list) IN
         IF off.t # "dict" THEN AttributeError
         ELSE LET avail == PyOr(PyOr(dict_get(off, "availability"),
                                     dict_get(off, "Availability")), JStr(<<>>))
              IN  IF avail.t = "str" /\ Contains(<<"i","n","s","t","o","c","k">>, lower(avail.v)) THEN "in_stock"
                  ELSE IF avail.t = "str" /\ Contains(<<"o","u","t","o","f","s","t","o","c","k">>, lower(avail.v))
                       THEN "out_of_stock"
                  ELSE NoMatch

\* `for off in offer_list:` with its early returns; off.get raises
\* AttributeError when off is not a dict
RECURSIVE scan_offer_list(_)
scan_offer_list(offer_list) ==
    IF offer_list = <<>> THEN NoMatch
    ELSE LET off == Head(offer_list) IN
         IF off.t # "dict" THEN AttributeError
         ELSE LET avail == PyOr(PyOr(dict_get(off, "availability"),
                                     dict_get(off, "Availability")), JStr(<<>>))
              IN  IF avail.t = "str" /\ Contains(<<"i","n","s","t","o","c","k">>, lower(avail.v)) THEN "in_stock"
                  ELSE IF avail.t = "str" /\ Contains(<<"o","u","t","o","f","s","t","o","c","k">>, lower(avail.v))
                       THEN "out_of_stock"
                  ELSE scan_offer_list(Tail(offer_list))

\* `offers if isinstance(offers, list) else [offers]`, and the same for data
OneOrMany(x) == IF x.t = "list" THEN x.v ELSE <<x>>

\* `for node in nodes:`
RECURSIVE scan_nodes(_)
scan_nodes(nodes) ==
    IF nodes = <<>> THEN NoMatch
    ELSE LET node == Head(nodes)
             offers == IF node.t = "dict" THEN dict_get(node, "offers") ELSE None
             r == IF Truthy(offers) THEN scan_offer_list(OneOrMany(offers)) ELSE NoMatch
         IN  IF r # NoMatch THEN r ELSE scan_nodes(Tail(nodes))

\* `for p in patterns:`; a block json.loads rejects is skipped
RECURSIVE scan_patterns(_)
scan_patterns(patterns) ==
    IF patterns = <<>> THEN NoMatch
    ELSE LET data == Head(patterns)
             r == IF data.t = "invalid" THEN NoMatch ELSE scan_nodes(OneOrMany(data))
         IN  IF r # NoMatch THEN r ELSE scan_patterns(Tail(patterns))

check_json_ld_for_availability(h) == scan_patterns(Patterns(h))

---------------------------------------------------------------------------
(* detect_status_from_html *)

\* a bug the keyword tier could have: anticipated phrases tested first
keyword_tier_AnticipatedFirst(low) ==
    IF AnyWordIn(ANTICIPATED_WORDS, low) THEN "anticipated"
    ELSE IF AnyWordIn(IN_STOCK_WORDS, low) THEN "in_stock"
    ELSE IF AnyWordIn(OUT_OF_STOCK_WORDS, low) THEN "out_of_stock"
    ELSE NoMatch

\* the three loops over the lower-cased markup
keyword_tier(low) ==
    IF AnyWordIn(IN_STOCK_WORDS, low) THEN "in_stock"
    ELSE IF AnyWordIn(ANTICIPATED_WORDS, low) THEN "anticipated"
    ELSE IF AnyWordIn(OUT_OF_STOCK_WORDS, low) THEN "out_of_stock"
    ELSE NoMatch

\* soup.find_all(["button","a","input"]), then per element its text and
\* attribute values, lower-cased
RECURSIVE element_tier(_)
element_tier(btns) ==
    IF btns = <<>> THEN "unknown"
    ELSE LET btn == Head(btns)
             txt == lower(btn.text \o <<" ">> \o Join(<<" ">>, <<btn.attr>>))
         IN  IF AnyWordIn(IN_STOCK_WORDS, txt) THEN "in_stock"
             ELSE IF AnyWordIn(ANTICIPATED_WORDS, txt) THEN "anticipated"
             ELSE element_tier(Tail(btns))

detect_status_from_html(h) ==
    IF h.none \/ Markup(h) = <<>> THEN "unknown"
    ELSE LET low == lower(Markup(h))
             st == check_json_ld_for_availability(h)
             kw == keyword_tier(low)
         IN  IF st # NoMatch THEN st      \* a status, or the AttributeError raised
             ELSE IF kw # NoMatch THEN kw
             ELSE element_tier(h.elems)

Statuses == {"in_stock", "anticipated", "out_of_stock", "unknown"}

---------------------------------------------------------------------------
(* Inputs of the classifier: pages built from a few offers, nodes, script  *)
(* blocks, paragraphs and interactive elements.                            *)

OfferInStock == JDict([availability |-> JStr(<<"h","t","t","p","s",":","/","/","s","c","h","e","m","a",".","o","r","g","/","I","n","S","t","o","c","k">>)])
OfferOutOfStock == JDict([availability |-> JStr(<<"h","t","t","p",":","/","/","s","c","h","e","m","a",".","o","r","g","/","O","u","t","O","f","S","t","o","c","k">>)])
OfferCapitalKey == JDict([Availability |-> JStr(<<"I","N","S","T","O","C","K">>)])
OfferPreOrder == JDict([availability |-> JStr(<<"P","r","e","O","r","d","e","r">>)])
OfferNumber == JDict([availability |-> JNum(1)])
OfferBareString == JStr(<<"I","n","S","t","o","c","k">>)

OfferChoices ==
    {OfferInStock, OfferOutOfStock, OfferCapitalKey, OfferPreOrder, OfferNumber,
     OfferBareString}

\* what a node's "offers" key may hold: one offer, a list of offers, or 0
OffersValues ==
    OfferChoices \cup {JList(s) : s \in SeqsUpTo(OfferChoices, MaxOffers)} \cup {JNum(0)}

NodeNoOffers == JDict(<<>>)
NodeNotObject == JStr(<<"P","r","o","d","u","c","t">>)

Nodes == {JDict([offers |-> o]) : o \in OffersValues} \cup {NodeNoOffers, NodeNotObject}

NodeSample ==
    {JDict([offers |-> OfferInStock]), JDict([offers |-> OfferOutOfStock]),
     JDict([offers |-> OfferPreOrder]), JDict([offers |-> JNum(7)]), NodeNotObject}

BlockInvalid == Invalid(<<"{","o","o","p","s">>)

Blocks == Nodes \cup {JList(s) : s \in SeqsUpTo(NodeSample, MaxNodes)} \cup {BlockInvalid}

BlockSample ==
    {BlockInvalid, JDict([offers |-> OfferInStock]), JDict([offers |-> OfferOutOfStock]),
     JDict([offers |-> JList(<<OfferBareString>>)]),
     JList(<<JDict([offers |-> OfferPreOrder]), JDict([offers |-> OfferCapitalKey])>>)}

LdInputs == {<<b>> : b \in Blocks} \cup SeqsUpTo(BlockSample, MaxBlocks)

LdSample == {<<>>, <<BlockInvalid>>, <<JDict([offers |-> OfferNumber])>>}

Fragments ==
    {<<"I","n"," ","S","t","o","c","k">>, <<"A","d","d"," ","t","o"," ","C","a","r","t">>, <<"A","v","a","i","l","a","b","l","e"," ","S","o","o","n">>, <<"P","r","e","-","O","r","d","e","r">>, <<"S","o","l","d"," ","O","u","t">>,
     <<"C","u","r","r","e","n","t","l","y"," ","U","n","a","v","a","i","l","a","b","l","e">>, <<"P","o","k","e","m","o","n"," ","T","C","G"," ","B","o","o","s","t","e","r"," ","B","o","x">>}

FragmentSample == {<<>>, <<<<"S","o","l","d"," ","O","u","t">>>>, <<<<"P","r","e","-","O","r","d","e","r">>, <<"N","o","t"," ","A","v","a","i","l","a","b","l","e">>>>}

Element(tag, text, attr) == [tag |-> tag, text |-> text, attr |-> attr]

Elements ==
    {Element(<<"a">>, <<"P","r","e">>, <<"o","r","d","e","r">>), Element(<<"b","u","t","t","o","n">>, <<"I","n">>, <<"s","t","o","c","k">>),
     Element(<<"i","n","p","u","t">>, <<>>, <<"N","o","t","i","f","y">>), Element(<<"a">>, <<"S","h","o","p">>, <<"h","o","m","e">>)}

ElementSample == {<<>>, <<Element(<<"b","u","t","t","o","n">>, <<"B","u","y">>, <<"n","o","w">>)>>}

ClassifyInputs ==
    {NoneHtml}
    \cup {Page(ld, body, elems) :
            ld \in LdInputs, body \in FragmentSample, elems \in ElementSample}
    \cup {Page(ld, body, elems) :
            ld \in LdSample, body \in SeqsUpTo(Fragments, MaxFrags),
            elems \in SeqsUpTo(Elements, MaxElems)}

---------------------------------------------------------------------------
(* The run driver: main() *)

U1 == "http://x/p1"
U2 == "http://x/p2"
URLs == {U1, U2}

ProductBox == [label |-> "Booster Box", url |-> U1]
ProductNoLabel == [url |-> U2]
ProductChoices == {ProductBox, ProductNoLabel}

\* config.json "products": any list of the products, repeats included
Configs == SeqsUpTo(ProductChoices, MaxProducts)

\* `p.get("label") or p.get("url")`
label_of(p) == IF "label" \in DOMAIN p THEN p.label ELSE p.url

\* last_status.json before the first run: absent, which load_last_status
\* reads as {}
InitialStore == <<>>

\* dict.get(url): None when the URL has no entry
store_get(d, url) == IF url \in DOMAIN d THEN d[url] ELSE PyNone

\* a bug `last[url] = status` could have: an existing entry is kept
store_put_KeepExisting(d, url, status) ==
    IF url \in DOMAIN d THEN d
    ELSE [x \in DOMAIN d \cup {url} |-> IF x = url THEN status ELSE d[x]]

\* `last[url] = status`
store_put(d, url, status) ==
    [x \in DOMAIN d \cup {url} |-> IF x = url THEN status ELSE d[x]]

\* json.loads(LAST_STATUS_PATH.read_text()) of what json.dumps wrote: a
\* mapping of strings to strings comes back as it was written
load_last_status == store

\* a bug the end of main() could have: nothing is written after a failed send
save_last_status_UnlessSendFailed ==
    IF outbox # <<>> /\ ~outbox[Len(outbox)].ok THEN store ELSE last

\* what save_last_status(last) leaves in the file
save_last_status == last

PageInStock == Page(<<>>, <<<<"A","d","d"," ","t","o"," ","C","a","r","t">>>>, <<>>)
PageAnticipated == Page(<<>>, <<<<"P","r","e","-","O","r","d","e","r">>>>, <<>>)
PageSoldOut == Page(<<>>, <<<<"S","o","l","d"," ","O","u","t">>>>, <<>>)
PageBareStringOffer == Page(<<JDict([offers |-> OfferBareString])>>, <<<<"A","d","d"," ","t","o"," ","C","a","r","t">>>>, <<>>)

\* what fetch_html can return: None on any failure, else the markup
FetchResults == {NoneHtml, PageInStock, PageAnticipated, PageSoldOut, PageBareStringOffer}

status_of == [h \in FetchResults |-> detect_status_from_html(h)]

\* a bug the test of line 165 could have: the stored value is not compared
alert_IgnoresPrev(status, prv) == status \in {"in_stock", "anticipated"}

\* `status in ("in_stock", "anticipated") and prev != status`
alert(status, prv) == status \in {"in_stock", "anticipated"} /\ prv # status

\* send_email: False without credentials or when SMTP raises, else True
send_email(credentials, smtp_ok) == credentials /\ smtp_ok

---------------------------------------------------------------------------
(* History of the runs, for the properties that relate consecutive runs *)

\* what the run in progress observed for url u: "none" when u was not
\* processed, the status when every observation of u gave it, else "mixed"
Seen(u) ==
    LET S == {obs[k].status : k \in {j \in 1..Len(obs) : config[j].url = u}}
    IN  IF S = {} THEN "none"
        ELSE IF Cardinality(S) = 1 THEN CHOOSE x \in S : TRUE
        ELSE "mixed"

NoRun == [seen |-> "none", fresh |-> FALSE, unsent |-> {}]

\* the run that ends, as far as the watched URL goes: what it observed, whether
\* the URL had no entry when the store was loaded, and the statuses of the
\* events appended for it that went to a send_email call returning False
RunSummary ==
    [seen |-> Seen(watch),
     fresh |-> watch \notin DOMAIN loaded,
     unsent |-> IF outbox # <<>> /\ ~outbox[Len(outbox)].ok
                THEN {changes[k].status : k \in {j \in 1..Len(changes) : changes[j].url = watch}}
                ELSE {}]

---------------------------------------------------------------------------
(* Spec: consecutive runs of main() sharing last_status.json *)

NoProcess ==
    /\ config = <<>>
    /\ last = <<>>
    /\ changes = <<>>
    /\ idx = 1
    /\ pc = "idle"
    /\ outbox = <<>>
    /\ loaded = <<>>
    /\ obs = <<>>
    /\ saves = 0

Init ==
    /\ html = NoneHtml
    /\ result = "pending"
    /\ store = InitialStore
    /\ watch \in URLs
    /\ prev = NoRun
    /\ older = FALSE
    /\ NoProcess

\* the process starts: load_config finds config.json, load_last_status reads
\* the store, `changes` is empty
StartRun ==
    /\ pc = "idle"
    /\ \E cfg \in Configs : config' = cfg
    /\ last' = load_last_status
    /\ loaded' = load_last_status
    /\ changes' = <<>>
    /\ idx' = 1
    /\ pc' = "loop"
    /\ UNCHANGED <<store, outbox, obs, saves, watch, prev, older, classifyVars>>

\* the process starts and load_config raises FileNotFoundError
StartWithoutConfig ==
    /\ pc = "idle"
    /\ pc' = "aborted"
    /\ UNCHANGED <<store, config, last, changes, idx, outbox, loaded, obs, saves, watch,
                   prev, older, classifyVars>>

\* one iteration of `for p in products:`; an exception out of
\* detect_status_from_html ends the process
ProcessProduct ==
    /\ pc = "loop"
    /\ idx <= Len(config)
    /\ \E h \in FetchResults :
         LET p == config[idx]
             label == label_of(p)
             url == p.url
             status == status_of[h]
             prv == store_get(last, url)
         IN  IF status = AttributeError
             THEN /\ pc' = "crashed"
                  /\ UNCHANGED <<changes, last, idx, obs>>
             ELSE /\ changes' = IF alert(status, prv)
                                THEN Append(changes, [label |-> label, url |-> url,
                                                      status |-> status])
                                ELSE changes
                  /\ last' = store_put(last, url, status)
                  /\ idx' = idx + 1
                  /\ obs' = Append(obs, [status |-> status, failed |-> h.none,
                                         alerted |-> alert(status, prv)])
                  /\ pc' = pc
    /\ UNCHANGED <<store, config, outbox, loaded, saves, watch, prev, older, classifyVars>>

\* after the loop: `if changes:` one send_email with every change, else nothing
Notify ==
    /\ pc = "loop"
    /\ idx > Len(config)
    /\ IF changes # <<>>
       THEN \E credentials \in BOOLEAN, smtp_ok \in BOOLEAN :
                outbox' = Append(outbox, [count |-> Len(changes), body |-> changes,
                                          ok |-> send_email(credentials, smtp_ok)])
       ELSE outbox' = outbox
    /\ pc' = "save"
    /\ UNCHANGED <<store, config, last, changes, idx, loaded, obs, saves, watch, prev,
                   older, classifyVars>>

\* save_last_status(last)
Save ==
    /\ pc = "save"
    /\ store' = save_last_status
    /\ saves' = saves + 1
    /\ pc' = "done"
    /\ UNCHANGED <<config, last, changes, idx, outbox, loaded, obs, watch, prev, older,
                   classifyVars>>

\* the process is gone (main returned, or an exception ended it): only
\* last_status.json remains
Exit ==
    /\ pc \in {"done", "crashed", "aborted"}
    /\ pc' = "idle"
    /\ config' = <<>>
    /\ last' = <<>>
    /\ changes' = <<>>
    /\ idx' = 1
    /\ outbox' = <<>>
    /\ loaded' = <<>>
    /\ obs' = <<>>
    /\ saves' = 0
    /\ prev' = RunSummary
    /\ older' = (prev.seen = "in_stock")
    /\ UNCHANGED <<store, watch, classifyVars>>

Next == StartRun \/ StartWithoutConfig \/ ProcessProduct \/ Notify \/ Save \/ Exit

Spec == Init /\ [][Next]_vars

---------------------------------------------------------------------------
(* SpecClassify: the classifier applied to every input *)

InitClassify ==
    /\ html \in ClassifyInputs
    /\ result = "pending"
    /\ store = <<>>
    /\ watch = U1
    /\ prev = NoRun
    /\ older = FALSE
    /\ NoProcess

Classify ==
    /\ result = "pending"
    /\ result' = detect_status_from_html(html)
    /\ UNCHANGED <<html, runVars>>

NextClassify == Classify

SpecClassify == InitClassify /\ [][NextClassify]_vars

---------------------------------------------------------------------------
(* Properties of the run driver, checked under Spec *)

Actionable == {"in_stock", "anticipated"}

Running == pc \in {"loop", "save", "done", "crashed"}

MaxOf(S) == CHOOSE x \in S : \A y \in S : y <= x

ConfiguredURLs == {config[k].url : k \in 1..Len(config)}

\* the positions of this run's loop that processed url u before position k
Earlier(u, k) == {j \in 1..(k - 1) : j <= Len(obs) /\ config[j].url = u}

\* the value `last` held for the product of position k when it was processed:
\* the status of the latest earlier position with the same URL, else what
\* the loaded store had, else None
PriorValue(k) ==
    LET u == config[k].url
    IN  IF Earlier(u, k) # {} THEN obs[MaxOf(Earlier(u, k))].status
        ELSE store_get(loaded, u)

EventOf(k) ==
    [label |-> label_of(config[k]), url |-> config[k].url, status |-> obs[k].status]

\* the positions whose status is actionable and differs from the stored value
DueAlerts ==
    SelectSeq([k \in 1..Len(obs) |-> k],
              LAMBDA k : obs[k].status \in Actionable /\ PriorValue(k) # obs[k].status)

EventsFor(u) == {k \in 1..Len(changes) : changes[k].url = u}

\* C1: a ChangeEvent is appended for a processed product if and only if its
\* new status is in_stock or anticipated and differs from the value stored for
\* its URL at that moment (a missing entry differs from every status): the
\* list `changes` is exactly the events of those products, in loop order, and
\* never holds an out_of_stock or unknown event.
C1_EventIffActionableAndChanged ==
    Running =>
        /\ changes = [i \in 1..Len(DueAlerts) |-> EventOf(DueAlerts[i])]
        /\ \A k \in 1..Len(obs) :
              obs[k].status \in {"out_of_stock", "unknown"} =>
                  \A i \in 1..Len(changes) : changes[i] # EventOf(k)

\* a completed run in which one actionable observation alerted and another,
\* equal to the value stored at that moment, did not
C1_Witness ==
    /\ pc = "done"
    /\ \E j, k \in 1..Len(obs) :
          /\ obs[j].status \in Actionable /\ obs[j].alerted
          /\ obs[k].status \in Actionable /\ ~obs[k].alerted
    /\ Len(changes) = 1

\* C2: the run that first observes in_stock (or anticipated) for a URL with no
\* stored entry emits an event for it, and the run that immediately follows
\* and observes the same status for that URL emits no event for it.
C2_NoRepeatAlertInFollowingRun ==
    \A s \in Actionable :
        /\ (Running /\ watch \notin DOMAIN loaded /\ Seen(watch) = s)
              => \E i \in EventsFor(watch) : changes[i].status = s
        /\ (prev.fresh /\ prev.seen = s /\ Running /\ Seen(watch) = s)
              => EventsFor(watch) = {}

\* C3: after a completed run the persisted store is the loaded store
\* overwritten at exactly the configured URLs, each with its last observation
\* of this run; every other entry is kept as it was.
C3_StoreIsLoadedOverwrittenAtConfigured ==
    pc = "done" =>
        store = [u \in DOMAIN loaded \cup ConfiguredURLs |->
                    IF u \in ConfiguredURLs
                    THEN obs[MaxOf({k \in 1..Len(config) : config[k].url = u})].status
                    ELSE loaded[u]]

\* a completed run with a URL listed twice whose second observation (unknown)
\* replaced the first, and an entry of a URL that is not configured
C3_Witness ==
    /\ pc = "done"
    /\ Len(config) = 2
    /\ config[1].url = config[2].url
    /\ obs[1].status = "in_stock"
    /\ obs[2].status = "unknown"
    /\ \E u \in DOMAIN store : u \notin ConfiguredURLs

\* C6: in every run with a configuration the Notifier is invoked at most
\* once, only after all products were processed, exactly when an event was
\* produced, with all the events in order; the store is then persisted exactly
\* once, after the notification step.
C6_OneNotificationThenOneSave ==
    /\ Len(outbox) <= 1
    /\ outbox # <<>> => idx > Len(config) /\ changes # <<>> /\ outbox[1].body = changes
    /\ saves <= 1
    /\ saves = 1 => pc = "done"
    /\ pc \in {"done", "crashed"} =>
          /\ saves = 1
          /\ changes # <<>> <=> Len(outbox) = 1

\* C8: a product whose fetch failed is classified unknown, produces no event
\* and has its entry set to unknown, and every later product of the
\* configuration is still processed and recorded in the same run.
C8_FetchFailureDoesNotStopTheRun ==
    \A k \in 1..Len(obs) :
        obs[k].failed =>
            /\ obs[k].status = "unknown"
            /\ ~obs[k].alerted
            /\ (\A j \in (k + 1)..Len(obs) : config[j].url # config[k].url)
                  => last[config[k].url] = "unknown"
            /\ pc \in {"done", "crashed"} => Len(obs) = Len(config)

\* C9: when a run produced an event for a URL and send_email returned False,
\* the store is still persisted with that status, and the following run, as
\* long as it observes the same status for the URL, appends no event for it
\* and passes none for it to send_email.
C9_NoRetryAfterFailedSend ==
    \A s \in Actionable :
        /\ ( /\ pc = "done"
             /\ outbox # <<>> /\ ~outbox[1].ok
             /\ \E i \in EventsFor(watch) : changes[i].status = s
             /\ Seen(watch) = s )
              => watch \in DOMAIN store /\ store[watch] = s
        /\ (s \in prev.unsent /\ prev.seen = s) =>
              /\ pc \in {"idle", "aborted"} => store_get(store, watch) = s
              /\ Running => store_get(loaded, watch) = s
              /\ (Running /\ Seen(watch) \in {"none", s}) =>
                    /\ EventsFor(watch) = {}
                    /\ \A m \in 1..Len(outbox) :
                          \A i \in 1..Len(outbox[m].body) : outbox[m].body[i].url # watch

\* the run after a failed send observed in_stock again for the URL, produced
\* no event at all and ended without calling send_email
C9_Witness ==
    /\ "in_stock" \in prev.unsent
    /\ prev.seen = "in_stock"
    /\ pc = "done"
    /\ Seen(watch) = "in_stock"
    /\ changes = <<>>
    /\ outbox = <<>>

\* C10: for a URL observed as in_stock in one run, as unknown or out_of_stock
\* in the next, and as in_stock again in the run after, that third run emits
\* a new event.
C10_AlertAgainAfterInterveningStatus ==
    (older /\ prev.seen \in {"unknown", "out_of_stock"}) =>
        \A k \in 1..Len(obs) :
            (config[k].url = watch /\ Earlier(watch, k) = {} /\ obs[k].status = "in_stock")
                => obs[k].alerted

---------------------------------------------------------------------------
(* Properties of the classifier, checked under SpecClassify *)

Classified == result # "pending"

\* the nodes read from a script block, and the offers read from a node
NodesOfBlock(b) == IF b.t = "invalid" THEN <<>> ELSE OneOrMany(b)

OffersOfNode(n) ==
    IF n.t = "dict" /\ "offers" \in DOMAIN n.v /\ Truthy(n.v["offers"])
    THEN OneOrMany(n.v["offers"])
    ELSE <<>>

\* every offer of the page as <<block, node, offer>> positions
OfferPositions(h) ==
    UNION { UNION { {<<b, n, o>> : o \in 1..Len(OffersOfNode(NodesOfBlock(h.ld[b])[n]))}
                    : n \in 1..Len(NodesOfBlock(h.ld[b])) }
            : b \in 1..Len(h.ld) }

OfferAt(h, p) == OffersOfNode(NodesOfBlock(h.ld[p[1]])[p[2]])[p[3]]

\* document order of positions
Precedes(p, q) ==
    \/ p[1] < q[1]
    \/ p[1] = q[1] /\ p[2] < q[2]
    \/ p[1] = q[1] /\ p[2] = q[2] /\ p[3] < q[3]

\* an offer object whose availability (either spelling of the key) is a string
\* containing word, in any letter case
AvailabilityHas(off, word) ==
    /\ off.t = "dict"
    /\ \E key \in {"availability", "Availability"} \cap DOMAIN off.v :
          off.v[key].t = "str" /\ Contains(word, lower(off.v[key].v))

\* an offer at which the scan stops
Decides(off) ==
    \/ off.t # "dict"
    \/ AvailabilityHas(off, <<"i","n","s","t","o","c","k">>)
    \/ AvailabilityHas(off, <<"o","u","t","o","f","s","t","o","c","k">>)

FirstDeciding(h, p) ==
    /\ Decides(OfferAt(h, p))
    /\ \A q \in OfferPositions(h) : Precedes(q, p) => ~Decides(OfferAt(h, q))

\* C4 as stated: for every page with a structured-data offer whose
\* availability contains "InStock", what the classifier returns is in_stock
\* (a call that raises returns nothing: that is C7).
C4_AnyInStockOfferWins ==
    ( /\ result \in Statuses
      /\ \E p \in OfferPositions(html) : AvailabilityHas(OfferAt(html, p), <<"i","n","s","t","o","c","k">>) )
        => result = "in_stock"

\* C4 amended: the first offer in document order that is not an object or
\* whose availability contains instock or outofstock decides; when it is an
\* InStock offer the page is classified in_stock whatever keywords and offers
\* follow, and when it is an OutOfStock offer the page is out_of_stock.
C4_FirstDecidingOfferWins ==
    Classified =>
        \A p \in OfferPositions(html) :
            FirstDeciding(html, p) =>
                /\ AvailabilityHas(OfferAt(html, p), <<"i","n","s","t","o","c","k">>) => result = "in_stock"
                /\ ( /\ ~AvailabilityHas(OfferAt(html, p), <<"i","n","s","t","o","c","k">>)
                     /\ AvailabilityHas(OfferAt(html, p), <<"o","u","t","o","f","s","t","o","c","k">>) )
                      => result = "out_of_stock"

\* a page classified in_stock by the InStock offer of its first block, with
\* an OutOfStock offer in a later block and an out-of-stock phrase in its text
C4_Witness ==
    /\ result = "in_stock"
    /\ AnyWordIn(OUT_OF_STOCK_WORDS, lower(Markup(html)))
    /\ \E p, q \in OfferPositions(html) :
          /\ FirstDeciding(html, p)
          /\ AvailabilityHas(OfferAt(html, p), <<"i","n","s","t","o","c","k">>)
          /\ p[1] < q[1]
          /\ AvailabilityHas(OfferAt(html, q), <<"o","u","t","o","f","s","t","o","c","k">>)

PhraseOccurs(words, h) ==
    \E w \in {words[i] : i \in 1..Len(words)} : Contains(w, lower(Markup(h)))

\* C5: for a non-empty page with no structured-data match the keyword tier
\* gives in_stock if any in-stock phrase occurs in the lower-cased markup,
\* anticipated only if none does and an anticipated phrase occurs, and
\* out_of_stock only if neither does and an out-of-stock phrase occurs.
C5_KeywordPrecedence ==
    (Classified /\ ~html.none /\ Markup(html) # <<>>
       /\ check_json_ld_for_availability(html) = NoMatch) =>
        LET inw == PhraseOccurs(IN_STOCK_WORDS, html)
            ant == PhraseOccurs(ANTICIPATED_WORDS, html)
            out == PhraseOccurs(OUT_OF_STOCK_WORDS, html)
            kw == keyword_tier(lower(Markup(html)))
        IN  /\ inw => result = "in_stock" /\ kw = "in_stock"
            /\ (~inw /\ ant) => result = "anticipated" /\ kw = "anticipated"
            /\ (~inw /\ ~ant /\ out) => result = "out_of_stock" /\ kw = "out_of_stock"
            /\ kw = "anticipated" => ~inw /\ ant
            /\ kw = "out_of_stock" => ~inw /\ ~ant /\ out
            /\ (inw \/ ant \/ out) <=> kw # NoMatch

\* a page without structured-data match classified in_stock although an
\* anticipated phrase and an out-of-stock phrase occur in it
C5_Witness ==
    /\ result = "in_stock"
    /\ ~html.none
    /\ check_json_ld_for_availability(html) = NoMatch
    /\ PhraseOccurs(ANTICIPATED_WORDS, html)
    /\ PhraseOccurs(OUT_OF_STOCK_WORDS, html)

\* C7: nothing in the classification path throws: every input is classified
\* as one of in_stock, anticipated, out_of_stock, unknown.
C7_ClassifyNeverRaises == Classified => result \in Statuses

=============================================================================
